---- MODULE Spec2Model ----
(***************************************************************************)
(* Lifecycle orchestration of go-micro-patterns-prototype.                 *)
(*                                                                         *)
(* Three families of orchestrator share one shape (a unit sequence, a      *)
(* root context with its cancel function, a mutex):                        *)
(*   "separated" Orchestrator / ServiceFactory with an error channel       *)
(*               (patterns/separated, patterns/current, simplified, root)  *)
(*   "simple"    Orchestrator whose fan-out Stop only logs                 *)
(*               (patterns/simple)                                         *)
(*   "app"       App with named units and sequential reverse Stop          *)
(*               (shared-foundation, goforge, totex)                       *)
(* WaitForShutdown of the fan-out variants and the HTTP server unit        *)
(* (connectrpc Server) are modelled as well, the latter on its own.        *)
(***************************************************************************)
EXTENDS Integers, Sequences, FiniteSets, TLC

\* units registered and calls made when one goroutine drives the orchestrator
MaxUnits == 2
MaxCalls == 3
\* the same when two goroutines call into it
MaxConcCalls == 3
MaxConcUnits == 1
\* Start and Stop calls made on the HTTP server unit taken alone
MaxServerCalls == 3

\* Init calls on one App, and Start and Stop calls on it
MaxInits == 2

MaxAppCalls == 2

\* Register and Create calls made on one Registry
MaxRegistryCalls == 3

\* server entries in the configuration given to totex NewWithConfig
MaxServers == 3

Variants == {"separated", "simple", "app"}
FanOut == {"separated", "simple"}
Callers == {"t1", "t2"}
NoOne == "none"
\* the goroutine of func main, which is the one that calls WaitForShutdown
Main == "t1"

\* Names handed out to units in registration order.
UnitNames == <<"A", "B", "C", "D">>
\* The error each unit's hooks fail with, by position.
Causes == <<"port in use", "flush failed", "timeout", "closed">>

VARIABLES variant, active, services, cancelled, mu, pc, idx, call, wg,
          errors, gor, hist, pend, startCtx, callerDone, sigChan, srv, app,
          nest, run, reg, tx

vars == <<variant, active, services, cancelled, mu, pc, idx, call, wg,
          errors, gor, hist, pend, startCtx, callerDone, sigChan, srv, app,
          nest, run, reg, tx>>

\* the fields of the orchestrator, with the bookkeeping of its calls
orchestrator == <<variant, active, services, cancelled, mu, pc, idx, call, wg,
                  errors, gor, hist, pend, startCtx, callerDone, sigChan>>

\* the state of the components that are modelled apart from the orchestrator
others == <<app, nest, run, reg, tx>>

(***************************************************************************)
(* Errors.  An error value is its message (a sequence of tokens) together  *)
(* with the message of the error it wraps; nil has neither.                *)
(***************************************************************************)
Nil == [msg |-> <<>>, wraps |-> <<>>]

UnitError(c) == [msg |-> <<c>>, wraps |-> <<>>]

\* What a unit's Start or Stop hook may return.
HookResults(u) ==
    IF u \in 1..Len(Causes) THEN {Nil, UnitError(Causes[u])} ELSE {Nil}

\* fmt.Errorf("failed to start %s: %w", name, err)
Errorf_failed_to_start(name, err) ==
    [msg |-> <<"failed to start ", name, ": ">> \o err.msg, wraps |-> err.msg]

Tokens(e) == {e.msg[i] : i \in 1..Len(e.msg)}

(***************************************************************************)
(* sync.Mutex: Lock goes through only while nobody holds the mutex.        *)
(***************************************************************************)
Lockable_always(m) == TRUE

Lockable(m) == m = NoOne

\* append(services, service)
append_front(s, x) == <<x>> \o s

append(s, x) == Append(s, x)

(***************************************************************************)
(* Contexts.  The Orchestrator and ServiceFactory variants hand their root *)
(* context to the hooks; App.Start and App.Stop hand on the context of     *)
(* their caller, which is not derived from the root context.               *)
(***************************************************************************)
HookCtx_caller(v) == "caller"

HookCtx(v) == IF v = "app" THEN "caller" ELSE "root"

\* ctx.Done() is closed
ctxDone(x) ==
    CASE x = "root" -> cancelled
      [] x = "caller" -> callerDone
      [] OTHER -> FALSE

(***************************************************************************)
(* Start: the value returned when a unit's start hook returned err.        *)
(***************************************************************************)
StartError_raw(v, name, err) == err

StartError(v, name, err) ==
    IF v = "app" THEN Errorf_failed_to_start(name, err) ELSE err

\* for _, service := range services: first index, next index.
RangeFirst_skip(n) == 2

RangeFirst(n) == 1

RangeNext_skip(i) == i + 2

RangeNext(i) == i + 1

\* if err := service.Start(ctx); err != nil { ...; return ... }
StartAborts_never(err) == FALSE

StartAborts_inverted(err) == err = Nil

StartAborts(err) == err # Nil

(***************************************************************************)
(* Stop.                                                                   *)
(***************************************************************************)
\* context.CancelFunc: the context reports cancelled from now on.
cancel_noop(c) == c

cancel_toggle(c) == ~c

cancel(c) == TRUE

\* App.Stop: for i := len(services) - 1; i >= 0; i-- (positions count from 1 here)
AppStopLoops_skipFirst(i) == i > 1

AppStopLoops(i) == i >= 1

\* App.Stop starts at the last unit and steps down.
AppStopFirst_forward(n) == IF n = 0 THEN 0 ELSE 1

AppStopFirst_none(n) == 0

AppStopFirst(n) == n

AppStopNext(i) == i - 1

\* if err := s.Stop(ctx); err != nil { errors <- err }  (only where the channel exists)
Sends(v, err) == v = "separated" /\ err # Nil

\* errors := make(chan error, len(services))
ChanCap_unbuffered(n) == 0

ChanCap(n) == n

\* once Stop has returned, its finished goroutines are gone
Reap(g) == [u \in 1..MaxUnits |-> IF g[u] = "done" THEN "none" ELSE g[u]]

\* wg.Wait() returns when the counter is zero
WaitDone_noWait(w) == TRUE

WaitDone(w) == w = 0

\* close(errors); for err := range errors { if err != nil { return err } }; return nil
RangeErrors_last(ch) == IF ch = <<>> THEN Nil ELSE ch[Len(ch)]

RangeErrors(ch) == IF ch = <<>> THEN Nil ELSE Head(ch)

\* The value Stop hands back: simple's Stop has no result, App.Stop returns nil.
StopResult(v, ch) == IF v = "separated" THEN RangeErrors(ch) ELSE Nil

(***************************************************************************)
(* Bookkeeping of calls (history, not program state).                      *)
(***************************************************************************)
NoCall == [op |-> "none", n |-> 0, h0 |-> 0, ev |-> <<>>, done |-> TRUE, ret |-> Nil,
           w |-> "none", sig |-> FALSE]

NewCall(o) == [op |-> o, n |-> Len(services), h0 |-> Len(hist), ev |-> <<>>,
               done |-> FALSE, ret |-> Nil, w |-> "none", sig |-> FALSE]

InvEv(u) == [k |-> "inv", u |-> u, n |-> services[u], r |-> Nil, c |-> cancelled,
             ctx |-> HookCtx(variant)]

RetEv(u, r) == [k |-> "ret", u |-> u, n |-> services[u], r |-> r, c |-> cancelled,
                ctx |-> HookCtx(variant)]

\* what is kept of a finished call once another caller begins one: that it
\* was a stop, and over how many units
Summary(c) ==
    IF c.op \in {"stop", "stopped"}
    THEN [NoCall EXCEPT !.op = "stopped", !.n = c.n]
    ELSE NoCall

\* the record of caller t's new call; finished records of the others are cut down
Begin(t, o) ==
    [s \in Callers |-> IF s = t THEN NewCall(o)
                       ELSE IF call[s].done THEN Summary(call[s]) ELSE call[s]]

\* a finished call, kept as: which operation, by whom, whether it returned nil
Completed(o, t, e) == [op |-> o, by |-> t, ok |-> (e = Nil)]

Log(t, e) == [call EXCEPT ![t].ev = Append(@, e)]

\* The goroutines of a fan-out stop are not ordered against each other: their
\* events are kept by unit, each unit's invocation before its return.
Place(ev, e) ==
    LET p == Cardinality({j \in 1..Len(ev) : ev[j].u <= e.u})
    IN  SubSeq(ev, 1, p) \o <<e>> \o SubSeq(ev, p + 1, Len(ev))

LogFan(t, e) == [call EXCEPT ![t].ev = Place(@, e)]

\* a WaitForShutdown that ignores what its Stop returned
WaitOutcome_returns(w, r) == IF w = "stopping" THEN "returned" ELSE w

\* WaitForShutdown after its Stop: os.Exit(1) on an error, else it returns
WaitOutcome(w, r) ==
    IF w = "stopping"
    THEN (IF r # Nil /\ run.stage = "none" THEN "exited" ELSE "returned")
    ELSE w

\* WaitForShutdown got to its last statement, the one that logs
\* "All services stopped gracefully" (simple and builder log it in Stop)
Graceful(c) == c.w = "returned"

Finish(c, r) == [c EXCEPT !.done = TRUE, !.ret = r, !.w = WaitOutcome(c.w, r)]

InFlight == {t \in Callers : pc[t] # "idle"}

\* how many Start / Stop calls a run may make
CallBudget == IF Cardinality(active) > 1 THEN MaxConcCalls ELSE MaxCalls

\* how many units a run may register
UnitBudget == IF Cardinality(active) > 1 THEN MaxConcUnits ELSE MaxUnits

\* connectrpc.NewServer: the server field is left nil (0 here); https are the
\* http.Server values made so far, calls the Start and Stop calls made
NilServer == 0

NewServer == [server |-> NilServer, https |-> <<>>, calls |-> <<>>]

\* the packages that define this App
AppKinds == {"shared-foundation", "goforge", "main"}

\* the packages whose Init appends to a.services; main.go assigns the slice
Appending == {"shared-foundation", "goforge"}

\* the services Init creates, in the order of its statements
CoreServices_tracerFirst ==
    <<"tracer", "logger", "metrics", "service-discovery", "broker", "cache",
      "database", "connectrpc-server">>

CoreServices ==
    <<"logger", "tracer", "metrics", "service-discovery", "broker", "cache",
      "database", "connectrpc-server">>

\* what the factory of step k returns as its error: every Create in the
\* repository returns a mock or a slog logger and a nil error
Create(k) == Nil

\* New: no service registered yet
New(k) == [kind |-> k, services |-> <<>>, inits |-> 0, calls |-> 0,
           pc |-> "idle", i |-> 0, op |-> "none", ev |-> <<>>, ret |-> Nil]

\* no hook has called back into the orchestrator
NoNest == [of |-> NoOne, u |-> 0, c |-> 0, by |-> NoOne, h0 |-> 0, n0 |-> 0]

\* the goroutines that use the Registry, the service types and the creators
RegistryCallers == {"g1", "g2"}

ServiceTypes == {"logger:slog", "tracer:noop"}

Creators == {"creatorA", "creatorB"}

\* a goroutine that is in no call of the Registry; b and at are the numbers
\* of Register calls that had returned when Create was called and when it
\* read the map
NoFrame == [pc |-> "idle", op |-> "none", ty |-> "none", c |-> "none",
            b |-> 0, at |-> 0, exists |-> FALSE, creator |-> "none",
            invoked |-> "none", ret |-> Nil]

\* NewRegistry: an empty map; no goroutine holds mu
NewRegistry == [creators |-> [ty \in ServiceTypes |-> "none"],
                w |-> "none", r |-> {}, n |-> 0, done |-> <<>>,
                th |-> [g \in RegistryCallers |-> NoFrame]]

\* main has not called Run, nor the builder chain
NoRun == [kind |-> "none", stage |-> "none", startErr |-> Nil,
          got |-> [m |-> FALSE, err |-> Nil], ret |-> Nil]

\* the Type of a ServerConfig; createServerFromConfig knows "connectrpc"
ServerTypes == {"connectrpc", "grpc", "http"}

\* cfg.Servers: the types of the configured servers, in order
Configs == UNION {[1..n -> ServerTypes] : n \in 0..MaxServers}

\* the nil Server, and the nil *connectrpc.Server
NoServer == [id |-> 0, dyn |-> "nil"]

\* NewWithConfig before its loop over cfg.Servers: no server registered,
\* connectRPC nil; i is the entry the loop is at, logged the error lines
Configuring(cfg) == [cfg |-> cfg, i |-> 1, servers |-> <<>>,
                     connectRPC |-> NoServer, logged |-> 0, returned |-> FALSE]

\* the orchestrator and the server unit after construction
Constructed(a) ==
    /\ variant \in Variants
    /\ active = a
    /\ services = <<>>
    /\ cancelled = FALSE
    /\ mu = NoOne
    /\ pc = [t \in Callers |-> "idle"]
    /\ idx = [t \in Callers |-> 0]
    /\ call = [t \in Callers |-> NoCall]
    /\ wg = [t \in Callers |-> 0]
    /\ errors = [t \in Callers |-> <<>>]
    /\ gor = [t \in Callers |-> [u \in 1..MaxUnits |-> "none"]]
    /\ hist = <<>>
    /\ pend = [t \in Callers |-> [u \in 1..MaxUnits |-> Nil]]
    /\ startCtx = "none"
    /\ callerDone = FALSE
    /\ sigChan = [t \in Callers |-> <<>>]
    /\ srv = NewServer
    /\ nest = NoNest
    /\ run = NoRun
    /\ reg = NewRegistry

InitOf(a) ==
    /\ Constructed(a)
    /\ app = New("shared-foundation")
    /\ tx = Configuring(<<>>)

\* an App of any of the three packages
InitApp ==
    /\ Constructed({"t1"})
    /\ app \in {New(k) : k \in AppKinds}
    /\ tx = Configuring(<<>>)

\* NewWithConfig called with any configuration of up to MaxServers servers
InitConfig ==
    /\ Constructed({"t1"})
    /\ app = New("shared-foundation")
    /\ tx \in {Configuring(cfg) : cfg \in Configs}

\* one caller drives the orchestrator
Init == InitOf({"t1"})

\* two goroutines call into the same orchestrator
InitConc == InitOf(Callers)

(***************************************************************************)
(* A hook that calls back into the orchestrator.  The hook of unit u that  *)
(* caller t is running calls Add, Start or Stop on the same orchestrator;  *)
(* that nested call is the call of the other caller, and the hook goes on  *)
(* only when it has returned.                                              *)
(***************************************************************************)
\* caller t's call is inside the hook of unit u
HookRuns(t, u) ==
    \/ pc[t] \in {"start_hook", "stop_hook"} /\ idx[t] = u
    \/ u \in 1..MaxUnits /\ gor[t][u] = "running"

\* the nested call has returned: a Start or Stop of the nested caller has
\* completed, or its Add has registered a unit
NestedReturned ==
    \/ \E i \in (nest.h0 + 1)..Len(hist) : hist[i].by = nest.by
    \/ Len(services) > nest.n0

\* the hook of unit u in t's call is not waiting for a nested call
HookFree(t, u) ==
    \/ ~(nest.of = t /\ nest.u = u /\ nest.c = call[t].h0)
    \/ NestedReturned

(***************************************************************************)
(* register: Add / AddServer / AddConnectRPCServer.                        *)
(***************************************************************************)
Add(t) ==
    /\ pc[t] = "idle"
    /\ Lockable(mu)
    /\ Len(services) < UnitBudget
    /\ services' = append(services, UnitNames[Len(services) + 1])
    /\ UNCHANGED <<variant, active, cancelled, mu, pc, idx, call, wg, errors,
                   gor, hist, pend, startCtx, callerDone, sigChan, srv,
                   others>>

(***************************************************************************)
(* Start.                                                                  *)
(***************************************************************************)
Start_Lock(t) ==
    /\ pc[t] = "idle"
    /\ Lockable(mu)
    /\ Len(hist) + Cardinality(InFlight) < CallBudget
    /\ mu' = t
    /\ pc' = [pc EXCEPT ![t] = "start_loop"]
    /\ idx' = [idx EXCEPT ![t] = RangeFirst(Len(services))]
    /\ call' = Begin(t, "start")
    /\ UNCHANGED <<variant, active, services, cancelled, wg, errors, gor,
                   hist, pend, startCtx, callerDone, sigChan, srv, others>>

Start_InvokeHook(t) ==
    /\ pc[t] = "start_loop"
    /\ idx[t] <= Len(services)
    /\ pc' = [pc EXCEPT ![t] = "start_hook"]
    /\ call' = Log(t, InvEv(idx[t]))
    /\ startCtx' = HookCtx(variant)
    /\ UNCHANGED <<variant, active, services, cancelled, mu, idx, wg, errors,
                   gor, hist, pend, callerDone, sigChan, srv, others>>

\* a Start that cancels the root context when a hook fails
Start_HookReturns_rollback(t, r) ==
    /\ pc[t] = "start_hook"
    /\ IF StartAborts(r)
       THEN LET e == StartError(variant, services[idx[t]], r) IN
            /\ call' = [call EXCEPT ![t] = Finish(Log(t, RetEv(idx[t], r))[t], e)]
            /\ hist' = Append(hist, Completed("start", t, e))
            /\ pc' = [pc EXCEPT ![t] = "idle"]
            /\ mu' = NoOne
            /\ idx' = [idx EXCEPT ![t] = 0]
            /\ cancelled' = cancel(cancelled)
       ELSE /\ call' = Log(t, RetEv(idx[t], r))
            /\ pc' = [pc EXCEPT ![t] = "start_loop"]
            /\ idx' = [idx EXCEPT ![t] = RangeNext(idx[t])]
            /\ UNCHANGED <<mu, hist, cancelled>>
    /\ UNCHANGED <<variant, active, services, wg, errors, gor, pend, startCtx,
                   callerDone, sigChan, srv, others>>

Start_HookReturns(t, r) ==
    /\ pc[t] = "start_hook"
    /\ HookFree(t, idx[t])
    /\ IF StartAborts(r)
       THEN LET e == StartError(variant, services[idx[t]], r) IN
            /\ call' = [call EXCEPT ![t] = Finish(Log(t, RetEv(idx[t], r))[t], e)]
            /\ hist' = Append(hist, Completed("start", t, e))
            /\ pc' = [pc EXCEPT ![t] = "idle"]
            /\ mu' = NoOne
            /\ idx' = [idx EXCEPT ![t] = 0]
       ELSE /\ call' = Log(t, RetEv(idx[t], r))
            /\ pc' = [pc EXCEPT ![t] = "start_loop"]
            /\ idx' = [idx EXCEPT ![t] = RangeNext(idx[t])]
            /\ UNCHANGED <<mu, hist>>
    /\ UNCHANGED <<variant, active, services, cancelled, wg, errors, gor,
                   pend, startCtx, callerDone, sigChan, srv, others>>

\* a Start that empties the unit sequence when it is through
Start_ReturnNil_clears(t) ==
    /\ pc[t] = "start_loop"
    /\ idx[t] > Len(services)
    /\ call' = [call EXCEPT ![t] = Finish(@, Nil)]
    /\ hist' = Append(hist, Completed("start", t, Nil))
    /\ pc' = [pc EXCEPT ![t] = "idle"]
    /\ mu' = NoOne
    /\ idx' = [idx EXCEPT ![t] = 0]
    /\ services' = <<>>
    /\ UNCHANGED <<variant, active, cancelled, wg, errors, gor,
                   pend, startCtx, callerDone, sigChan, srv, others>>

Start_ReturnNil(t) ==
    /\ pc[t] = "start_loop"
    /\ idx[t] > Len(services)
    /\ call' = [call EXCEPT ![t] = Finish(@, Nil)]
    /\ hist' = Append(hist, Completed("start", t, Nil))
    /\ pc' = [pc EXCEPT ![t] = "idle"]
    /\ mu' = NoOne
    /\ idx' = [idx EXCEPT ![t] = 0]
    /\ UNCHANGED <<variant, active, services, cancelled, wg, errors, gor,
                   pend, startCtx, callerDone, sigChan, srv, others>>

(***************************************************************************)
(* Stop.                                                                   *)
(***************************************************************************)
Stop_Lock(t) ==
    /\ pc[t] = "idle"
    /\ Lockable(mu)
    /\ Len(hist) + Cardinality(InFlight) < CallBudget
    /\ mu' = t
    /\ pc' = [pc EXCEPT ![t] = "stop_cancel"]
    /\ call' = Begin(t, "stop")
    /\ UNCHANGED <<variant, active, services, cancelled, idx, wg, errors, gor,
                   hist, pend, startCtx, callerDone, sigChan, srv, others>>

Stop_Cancel(t) ==
    /\ pc[t] = "stop_cancel"
    /\ cancelled' = cancel(cancelled)
    /\ IF variant = "app"
       THEN /\ pc' = [pc EXCEPT ![t] = "stop_loop"]
            /\ idx' = [idx EXCEPT ![t] = AppStopFirst(Len(services))]
       ELSE /\ pc' = [pc EXCEPT ![t] = "stop_spawn"]
            /\ idx' = [idx EXCEPT ![t] = RangeFirst(Len(services))]
    /\ UNCHANGED <<variant, active, services, mu, call, wg, errors, gor,
                   hist, pend, startCtx, callerDone, sigChan, srv, others>>

\* fan-out: wg.Add(1); go func(s) {...}(service)
Stop_Go(t) ==
    /\ pc[t] = "stop_spawn"
    /\ idx[t] <= Len(services)
    /\ wg' = [wg EXCEPT ![t] = @ + 1]
    /\ gor' = [gor EXCEPT ![t][idx[t]] = "ready"]
    /\ idx' = [idx EXCEPT ![t] = RangeNext(idx[t])]
    /\ UNCHANGED <<variant, active, services, cancelled, mu, pc, call, errors,
                   hist, pend, startCtx, callerDone, sigChan, srv, others>>

Stop_GoDone(t) ==
    /\ pc[t] = "stop_spawn"
    /\ idx[t] > Len(services)
    /\ pc' = [pc EXCEPT ![t] = "stop_wait"]
    /\ UNCHANGED <<variant, active, services, cancelled, mu, idx, call, wg,
                   errors, gor, hist, pend, startCtx, callerDone, sigChan,
                   srv, others>>

\* the goroutine of unit u calls s.Stop(ctx)
Stop_GoInvokeHook(t, u) ==
    /\ gor[t][u] = "ready"
    /\ gor' = [gor EXCEPT ![t][u] = "running"]
    /\ call' = LogFan(t, InvEv(u))
    /\ UNCHANGED <<variant, active, services, cancelled, mu, pc, idx, wg,
                   errors, hist, pend, startCtx, callerDone, sigChan, srv,
                   others>>

\* s.Stop returns r: the goroutine either has an error to send or is done (wg.Done())
Stop_GoHookReturns(t, u, r) ==
    /\ gor[t][u] = "running"
    /\ HookFree(t, u)
    /\ call' = LogFan(t, RetEv(u, r))
    /\ IF Sends(variant, r)
       THEN /\ gor' = [gor EXCEPT ![t][u] = "sending"]
            /\ pend' = [pend EXCEPT ![t][u] = r]
            /\ UNCHANGED wg
       ELSE /\ gor' = [gor EXCEPT ![t][u] = "done"]
            /\ wg' = [wg EXCEPT ![t] = @ - 1]
            /\ UNCHANGED pend
    /\ UNCHANGED <<variant, active, services, cancelled, mu, pc, idx, errors,
                   hist, startCtx, callerDone, sigChan, srv, others>>

\* errors <- err goes through while the channel buffer has room; then wg.Done()
Stop_GoSend(t, u) ==
    /\ gor[t][u] = "sending"
    /\ Len(errors[t]) < ChanCap(Len(services))
    /\ errors' = [errors EXCEPT ![t] = Append(@, pend[t][u])]
    /\ pend' = [pend EXCEPT ![t][u] = Nil]
    /\ gor' = [gor EXCEPT ![t][u] = "done"]
    /\ wg' = [wg EXCEPT ![t] = @ - 1]
    /\ UNCHANGED <<variant, active, services, cancelled, mu, pc, idx, call,
                   hist, startCtx, callerDone, sigChan, srv, others>>

\* Where the caller of Stop goes on.  WaitForShutdown calls os.Exit(1) when
\* its Stop returned an error: the process, with every goroutine, is gone.
\* ServiceFactory.Run hands the error of its Stop to its caller instead.
AfterStop(t, e) ==
    IF call[t].w = "stopping" /\ e # Nil /\ run.stage = "none"
    THEN [s \in Callers |-> "exited"]
    ELSE [pc EXCEPT ![t] = "idle"]

\* wg.Wait(); close(errors); range errors; return
Stop_WaitReturn(t) ==
    /\ pc[t] = "stop_wait"
    /\ WaitDone(wg[t])
    /\ LET e == StopResult(variant, errors[t]) IN
       /\ call' = [call EXCEPT ![t] = Finish(@, e)]
       /\ hist' = Append(hist, Completed("stop", t, e))
       /\ pc' = AfterStop(t, e)
    /\ mu' = NoOne
    /\ idx' = [idx EXCEPT ![t] = 0]
    /\ errors' = [errors EXCEPT ![t] = <<>>]
    /\ gor' = [gor EXCEPT ![t] = Reap(@)]
    /\ UNCHANGED <<variant, active, services, cancelled, wg, pend, startCtx,
                   callerDone, sigChan, srv, others>>

\* App.Stop: for i := len(services)-1; i >= 0; i--
AppStop_InvokeHook(t) ==
    /\ pc[t] = "stop_loop"
    /\ AppStopLoops(idx[t])
    /\ pc' = [pc EXCEPT ![t] = "stop_hook"]
    /\ call' = Log(t, InvEv(idx[t]))
    /\ UNCHANGED <<variant, active, services, cancelled, mu, idx, wg, errors,
                   gor, hist, pend, startCtx, callerDone, sigChan, srv,
                   others>>

\* the error of a stop hook is only logged; the loop goes on
AppStop_HookReturns(t, r) ==
    /\ pc[t] = "stop_hook"
    /\ HookFree(t, idx[t])
    /\ call' = Log(t, RetEv(idx[t], r))
    /\ pc' = [pc EXCEPT ![t] = "stop_loop"]
    /\ idx' = [idx EXCEPT ![t] = AppStopNext(idx[t])]
    /\ UNCHANGED <<variant, active, services, cancelled, mu, wg, errors, gor,
                   hist, pend, startCtx, callerDone, sigChan, srv, others>>

AppStop_ReturnNil(t) ==
    /\ pc[t] = "stop_loop"
    /\ ~AppStopLoops(idx[t])
    /\ call' = [call EXCEPT ![t] = Finish(@, StopResult(variant, errors[t]))]
    /\ hist' = Append(hist, Completed("stop", t, StopResult(variant, errors[t])))
    /\ pc' = [pc EXCEPT ![t] = "idle"]
    /\ mu' = NoOne
    /\ idx' = [idx EXCEPT ![t] = 0]
    /\ UNCHANGED <<variant, active, services, cancelled, wg, errors, gor,
                   pend, startCtx, callerDone, sigChan, srv, others>>

\* the caller cancels the context it handed to App.Start / App.Stop
CallerCancel ==
    /\ variant = "app"
    /\ ~callerDone
    /\ callerDone' = TRUE
    /\ UNCHANGED <<variant, active, services, cancelled, mu, pc, idx, call, wg,
                   errors, gor, hist, pend, startCtx, sigChan, srv, others>>

(***************************************************************************)
(* WaitForShutdown (Orchestrator, ServiceFactory, Microservice).           *)
(***************************************************************************)
Signals == {"SIGINT", "SIGTERM"}

\* sigChan := make(chan os.Signal, 1)
SigChanCap == 1

\* signal.Notify(sigChan, syscall.SIGINT, syscall.SIGTERM), then block on <-sigChan
WaitForShutdown_Notify(t) ==
    /\ variant \in FanOut
    /\ t = Main
    /\ pc[t] = "idle"
    /\ Len(hist) + Cardinality(InFlight) < CallBudget
    /\ pc' = [pc EXCEPT ![t] = "wfs_wait"]
    /\ call' = [Begin(t, "wait") EXCEPT ![t].w = "waiting"]
    /\ sigChan' = [sigChan EXCEPT ![t] = <<>>]
    /\ UNCHANGED <<variant, active, services, cancelled, mu, idx, wg, errors,
                   gor, hist, pend, startCtx, callerDone, srv, others>>

\* The runtime relays signal s to every registered channel that has room and
\* drops it elsewhere.  A channel nobody reads any more is left out.
Signal(s) ==
    /\ \E t \in active : pc[t] = "wfs_wait" /\ Len(sigChan[t]) < SigChanCap
    /\ sigChan' = [t \in Callers |->
                      IF pc[t] = "wfs_wait" /\ Len(sigChan[t]) < SigChanCap
                      THEN Append(sigChan[t], s) ELSE sigChan[t]]
    /\ UNCHANGED <<variant, active, services, cancelled, mu, pc, idx, call, wg,
                   errors, gor, hist, pend, startCtx, callerDone, srv,
                   others>>

\* <-sigChan goes through once the channel holds a signal
Received_noWait(ch) == TRUE

Received(ch) == ch # <<>>

WaitForShutdown_Receive(t) ==
    /\ pc[t] = "wfs_wait"
    /\ Received(sigChan[t])
    /\ pc' = [pc EXCEPT ![t] = "wfs_got"]
    /\ call' = [call EXCEPT ![t].w = "signalled",
                            ![t].sig = sigChan[t] # <<>>]
    /\ sigChan' = [sigChan EXCEPT ![t] = IF @ = <<>> THEN @ ELSE Tail(@)]
    /\ UNCHANGED <<variant, active, services, cancelled, mu, idx, wg, errors,
                   gor, hist, pend, startCtx, callerDone, srv, others>>

\* o.Stop() called from WaitForShutdown: Stop takes the mutex
WaitForShutdown_Stop(t) ==
    /\ pc[t] = "wfs_got"
    /\ Lockable(mu)
    /\ mu' = t
    /\ pc' = [pc EXCEPT ![t] = "stop_cancel"]
    /\ call' = [Begin(t, "stop") EXCEPT ![t].w = "stopping",
                                        ![t].sig = call[t].sig]
    /\ UNCHANGED <<variant, active, services, cancelled, idx, wg, errors, gor,
                   hist, pend, startCtx, callerDone, sigChan, srv, others>>

(***************************************************************************)
(* ServiceFactory.Run, and the chain Build().Start().WaitForShutdown() of  *)
(* the builder's main: a start, the wait for a signal, a stop.             *)
(***************************************************************************)
\* which of the two a variant has: Run returns errors, the chain has none
RunKind(v) == IF v = "separated" THEN "Run" ELSE "chain"

\* what the start hands to its caller: ServiceFactory.Start its error,
\* Microservice.Start the Microservice, whether a unit failed or not
StartGives_error(k, e) == [m |-> k = "chain", err |-> e]

StartGives(k, e) ==
    IF k = "chain" THEN [m |-> TRUE, err |-> Nil] ELSE [m |-> FALSE, err |-> e]

\* if err := sf.Start(); err != nil { return err }
RunGoesOn_always(g) == TRUE

RunGoesOn(g) == g.err = Nil

\* Run calls sf.Start(); main calls Build().Start()
Run_Begin(t) ==
    /\ variant \in FanOut
    /\ t = Main
    /\ run.stage = "none"
    /\ pc[t] = "idle"
    /\ Lockable(mu)
    /\ Len(hist) + Cardinality(InFlight) < CallBudget
    /\ run' = [NoRun EXCEPT !.kind = RunKind(variant), !.stage = "start"]
    /\ mu' = t
    /\ pc' = [pc EXCEPT ![t] = "start_loop"]
    /\ idx' = [idx EXCEPT ![t] = RangeFirst(Len(services))]
    /\ call' = Begin(t, "start")
    /\ UNCHANGED <<variant, active, services, cancelled, wg, errors, gor,
                   hist, pend, startCtx, callerDone, sigChan, srv, app, nest,
                   reg, tx>>

\* the start has returned: Run returns its error, or goes on to
\* signal.Notify and <-sigChan; the chain always goes on
Run_AfterStart(t) ==
    /\ run.stage = "start"
    /\ pc[t] = "idle"
    /\ call[t].op = "start" /\ call[t].done
    /\ LET g == StartGives(run.kind, call[t].ret) IN
       IF RunGoesOn(g)
       THEN /\ run' = [run EXCEPT !.stage = "wait", !.startErr = call[t].ret,
                                  !.got = g]
            /\ pc' = [pc EXCEPT ![t] = "wfs_wait"]
            /\ call' = [Begin(t, "wait") EXCEPT ![t].w = "waiting"]
            /\ sigChan' = [sigChan EXCEPT ![t] = <<>>]
       ELSE /\ run' = [run EXCEPT !.stage = "returned", !.startErr = call[t].ret,
                                  !.got = g, !.ret = g.err]
            /\ UNCHANGED <<pc, call, sigChan>>
    /\ UNCHANGED <<variant, active, services, cancelled, mu, idx, wg, errors,
                   gor, hist, pend, startCtx, callerDone, srv, app, nest, reg,
                   tx>>

\* return sf.Stop(); the chain's WaitForShutdown returns after StopAll
Run_Return(t) ==
    /\ run.stage = "wait"
    /\ pc[t] = "idle"
    /\ call[t].op = "stop" /\ call[t].done
    /\ run' = [run EXCEPT !.stage = "returned", !.ret = call[t].ret]
    /\ UNCHANGED <<orchestrator, srv, app, nest, reg, tx>>

Next ==
    \/ \E t \in active : Add(t)
    \/ \E t \in active : Start_Lock(t)
    \/ \E t \in active : Start_InvokeHook(t)
    \/ \E t \in active : \E r \in HookResults(idx[t]) : Start_HookReturns(t, r)
    \/ \E t \in active : Start_ReturnNil(t)
    \/ \E t \in active : Stop_Lock(t)
    \/ \E t \in active : Stop_Cancel(t)
    \/ \E t \in active : Stop_Go(t)
    \/ \E t \in active : Stop_GoDone(t)
    \/ \E t \in active, u \in 1..MaxUnits : Stop_GoInvokeHook(t, u)
    \/ \E t \in active, u \in 1..MaxUnits : \E r \in HookResults(u) :
          Stop_GoHookReturns(t, u, r)
    \/ \E t \in active, u \in 1..MaxUnits : Stop_GoSend(t, u)
    \/ \E t \in active : Stop_WaitReturn(t)
    \/ \E t \in active : AppStop_InvokeHook(t)
    \/ \E t \in active : \E r \in HookResults(idx[t]) : AppStop_HookReturns(t, r)
    \/ \E t \in active : AppStop_ReturnNil(t)
    \/ CallerCancel
    \/ \E t \in active : WaitForShutdown_Notify(t)
    \/ \E s \in Signals : Signal(s)
    \/ \E t \in active : WaitForShutdown_Receive(t)
    \/ \E t \in active : WaitForShutdown_Stop(t)

Spec == Init /\ [][Next]_vars

SpecConc == InitConc /\ [][Next]_vars

(***************************************************************************)
(* Stop on its own, with the scheduling the Go runtime gives: the calling  *)
(* goroutine and every spawned goroutine keep running, and every stop hook *)
(* that was invoked returns.                                               *)
(***************************************************************************)
NextStop ==
    \/ \E t \in active : Add(t)
    \/ \E t \in active : Stop_Lock(t)
    \/ \E t \in active : Stop_Cancel(t)
    \/ \E t \in active : Stop_Go(t)
    \/ \E t \in active : Stop_GoDone(t)
    \/ \E t \in active, u \in 1..MaxUnits : Stop_GoInvokeHook(t, u)
    \/ \E t \in active, u \in 1..MaxUnits : \E r \in HookResults(u) :
          Stop_GoHookReturns(t, u, r)
    \/ \E t \in active, u \in 1..MaxUnits : Stop_GoSend(t, u)
    \/ \E t \in active : Stop_WaitReturn(t)
    \/ \E t \in active : AppStop_InvokeHook(t)
    \/ \E t \in active : \E r \in HookResults(idx[t]) : AppStop_HookReturns(t, r)
    \/ \E t \in active : AppStop_ReturnNil(t)
    \/ \E t \in active : WaitForShutdown_Notify(t)
    \/ \E s \in Signals : Signal(s)
    \/ \E t \in active : WaitForShutdown_Receive(t)
    \/ \E t \in active : WaitForShutdown_Stop(t)

StopFairness ==
    \A t \in Callers :
        /\ WF_vars(Stop_Cancel(t))
        /\ WF_vars(Stop_Go(t))
        /\ WF_vars(Stop_GoDone(t))
        /\ WF_vars(Stop_WaitReturn(t))
        /\ WF_vars(AppStop_InvokeHook(t))
        /\ WF_vars(\E r \in HookResults(idx[t]) : AppStop_HookReturns(t, r))
        /\ WF_vars(AppStop_ReturnNil(t))
        /\ WF_vars(WaitForShutdown_Receive(t))
        /\ WF_vars(WaitForShutdown_Stop(t))
        /\ \A u \in 1..MaxUnits :
              /\ WF_vars(Stop_GoInvokeHook(t, u))
              /\ WF_vars(\E r \in HookResults(u) : Stop_GoHookReturns(t, u, r))
              /\ WF_vars(Stop_GoSend(t, u))

SpecLive == Init /\ [][NextStop]_vars /\ StopFairness

(***************************************************************************)
(* The HTTP server unit (connectrpc Server, HTTPConnectRPCServer) on its   *)
(* own: Start and Stop called on it in any order.                          *)
(***************************************************************************)
\* a nil-pointer dereference
Panic == [msg |-> <<"panic">>, wraps |-> <<>>]

\* what (*http.Server).Shutdown(ctx) may return: nil, or ctx.Err()
ShutdownResults == {Nil, UnitError("context canceled")}

\* s.server.Shutdown(ctx) on the server the field points to
Shutdown(server, r) == IF server = NilServer THEN Panic ELSE r

\* if s.server != nil
StopShutsDown_always(server) == TRUE

StopShutsDown(server) == server # NilServer

\* a Start that listens before it returns and hands back the listener's error
Server_Start_listens ==
    /\ Len(srv.calls) < MaxServerCalls
    /\ \E bound \in BOOLEAN :
          srv' = [server |-> Len(srv.https) + 1,
                  https |-> Append(srv.https,
                                   [shut |-> FALSE,
                                    lis |-> IF bound THEN "serving" ELSE "failed"]),
                  calls |-> Append(srv.calls,
                                   [op |-> "Start",
                                    ret |-> IF bound THEN Nil
                                            ELSE UnitError("address already in use"),
                                    had |-> srv.server,
                                    has |-> Len(srv.https) + 1, shut |-> FALSE])]
    /\ UNCHANGED <<orchestrator, others>>

\* Start: s.server = &http.Server{...}; go func() { ListenAndServe }(); return nil
Server_Start ==
    /\ Len(srv.calls) < MaxServerCalls
    /\ srv' = [server |-> Len(srv.https) + 1,
               https |-> Append(srv.https, [shut |-> FALSE, lis |-> "spawned"]),
               calls |-> Append(srv.calls,
                                [op |-> "Start", ret |-> Nil, had |-> srv.server,
                                 has |-> Len(srv.https) + 1, shut |-> FALSE])]
    /\ UNCHANGED <<orchestrator, others>>

\* Stop: Shutdown of the server the field points to, if it points to one
Server_Stop(r) ==
    /\ Len(srv.calls) < MaxServerCalls
    /\ IF StopShutsDown(srv.server)
       THEN srv' = [srv EXCEPT
                      !.https = [k \in 1..Len(srv.https) |->
                                   IF k = srv.server
                                   THEN [srv.https[k] EXCEPT !.shut = TRUE]
                                   ELSE srv.https[k]],
                      !.calls = Append(@, [op |-> "Stop",
                                           ret |-> Shutdown(srv.server, r),
                                           had |-> srv.server, has |-> srv.server,
                                           shut |-> TRUE])]
       ELSE /\ r = Nil
            /\ srv' = [srv EXCEPT
                         !.calls = Append(@, [op |-> "Stop", ret |-> Nil,
                                              had |-> srv.server,
                                              has |-> srv.server, shut |-> FALSE])]
    /\ UNCHANGED <<orchestrator, others>>

\* the goroutine of http.Server k: ListenAndServe binds and serves, or fails
\* (the error is only logged), or finds the server shut down already
Server_Listen(k, bound) ==
    /\ k \in 1..Len(srv.https)
    /\ srv.https[k].lis = "spawned"
    /\ srv' = [srv EXCEPT !.https[k].lis =
                  IF srv.https[k].shut THEN "closed"
                  ELSE IF bound THEN "serving" ELSE "failed"]
    /\ UNCHANGED <<orchestrator, others>>

\* ListenAndServe returns http.ErrServerClosed after Shutdown
Server_ListenerExit(k) ==
    /\ k \in 1..Len(srv.https)
    /\ srv.https[k].lis = "serving"
    /\ srv.https[k].shut
    /\ srv' = [srv EXCEPT !.https[k].lis = "closed"]
    /\ UNCHANGED <<orchestrator, others>>

\* the hook that t is running calls into the orchestrator it belongs to
Hook_Calls(t, u, s) ==
    /\ nest = NoNest
    /\ HookRuns(t, u)
    /\ s \in active \ {t}
    /\ pc[s] = "idle"
    /\ Len(hist) + Cardinality(InFlight) < CallBudget
    /\ nest' = [of |-> t, u |-> u, c |-> call[t].h0, by |-> s,
                h0 |-> Len(hist), n0 |-> Len(services)]
    /\ UNCHANGED <<orchestrator, srv, app, run, reg, tx>>

NextServer ==
    \/ Server_Start
    \/ \E r \in ShutdownResults : Server_Stop(r)
    \/ \E k \in 1..MaxServerCalls, bound \in BOOLEAN : Server_Listen(k, bound)
    \/ \E k \in 1..MaxServerCalls : Server_ListenerExit(k)

SpecServer == Init /\ [][NextServer]_vars

\* main registers its units and then calls Run, or starts the chain
NextRun ==
    \/ \E t \in active : run.stage = "none" /\ Add(t)
    \/ \E t \in active : Run_Begin(t)
    \/ \E t \in active : Start_InvokeHook(t)
    \/ \E t \in active : \E r \in HookResults(idx[t]) : Start_HookReturns(t, r)
    \/ \E t \in active : Start_ReturnNil(t)
    \/ \E t \in active : Run_AfterStart(t)
    \/ \E s \in Signals : Signal(s)
    \/ \E t \in active : WaitForShutdown_Receive(t)
    \/ \E t \in active : WaitForShutdown_Stop(t)
    \/ \E t \in active : Stop_Cancel(t)
    \/ \E t \in active : Stop_Go(t)
    \/ \E t \in active : Stop_GoDone(t)
    \/ \E t \in active, u \in 1..MaxUnits : Stop_GoInvokeHook(t, u)
    \/ \E t \in active, u \in 1..MaxUnits : \E r \in HookResults(u) :
          Stop_GoHookReturns(t, u, r)
    \/ \E t \in active, u \in 1..MaxUnits : Stop_GoSend(t, u)
    \/ \E t \in active : Stop_WaitReturn(t)
    \/ \E t \in active : Run_Return(t)

SpecRun == Init /\ [][NextRun]_vars

\* two callers, and hooks that may call back into the orchestrator
NextNested ==
    \/ Next
    \/ \E t \in Callers, u \in 1..MaxUnits, s \in Callers : Hook_Calls(t, u, s)

SpecNested == InitConc /\ [][NextNested]_vars

(***************************************************************************)
(* The Registry of service creators: Register writes the map under the     *)
(* write lock, Create reads it under the read lock and calls the creator   *)
(* after unlocking.                                                        *)
(***************************************************************************)
exceptRegistry == <<orchestrator, srv, app, nest, run, tx>>

\* fmt.Errorf("unknown service type: %s", serviceType)
UnknownServiceType(ty) ==
    [msg |-> <<"unknown service type: ", ty>>, wraps |-> <<>>]

\* r.creators[serviceType] = creator
Store_keepFirst(m, ty, c) == IF m[ty] = "none" THEN [m EXCEPT ![ty] = c] ELSE m

Store(m, ty, c) == [m EXCEPT ![ty] = c]

\* what a creator may return as its error
CreatorResults == {Nil, UnitError("create failed")}

Registry_Register(g, ty, c) ==
    /\ reg.th[g].pc = "idle"
    /\ reg.n < MaxRegistryCalls
    /\ reg' = [reg EXCEPT !.n = @ + 1,
                          !.th[g] = [NoFrame EXCEPT !.pc = "lock", !.op = "Register",
                                                    !.ty = ty, !.c = c]]
    /\ UNCHANGED exceptRegistry

\* r.mu.Lock(): no reader and no other writer
Registry_Lock(g) ==
    /\ reg.th[g].pc = "lock"
    /\ reg.w = "none" /\ reg.r = {}
    /\ reg' = [reg EXCEPT !.w = g, !.th[g].pc = "locked"]
    /\ UNCHANGED exceptRegistry

\* the assignment, the deferred Unlock and the return
Registry_Store(g) ==
    /\ reg.th[g].pc = "locked"
    /\ reg' = [reg EXCEPT
                 !.creators = Store(@, reg.th[g].ty, reg.th[g].c),
                 !.w = "none",
                 !.done = Append(@, [ty |-> reg.th[g].ty, c |-> reg.th[g].c]),
                 !.th[g].pc = "idle"]
    /\ UNCHANGED exceptRegistry

Registry_Create(g, ty) ==
    /\ reg.th[g].pc = "idle"
    /\ reg.n < MaxRegistryCalls
    /\ reg' = [reg EXCEPT !.n = @ + 1,
                          !.th[g] = [NoFrame EXCEPT !.pc = "rlock", !.op = "Create",
                                                    !.ty = ty, !.b = Len(reg.done)]]
    /\ UNCHANGED exceptRegistry

\* r.mu.RLock(): no writer
Registry_RLock(g) ==
    /\ reg.th[g].pc = "rlock"
    /\ reg.w = "none"
    /\ reg' = [reg EXCEPT !.r = @ \cup {g}, !.th[g].pc = "rlocked"]
    /\ UNCHANGED exceptRegistry

\* creator, exists := r.creators[serviceType]; r.mu.RUnlock()
Registry_Lookup(g) ==
    /\ reg.th[g].pc = "rlocked"
    /\ reg' = [reg EXCEPT
                 !.r = @ \ {g},
                 !.th[g].pc = "looked",
                 !.th[g].at = Len(reg.done),
                 !.th[g].exists = reg.creators[reg.th[g].ty] # "none",
                 !.th[g].creator = reg.creators[reg.th[g].ty]]
    /\ UNCHANGED exceptRegistry

\* if !exists { return nil, fmt.Errorf(...) }
Registry_Unknown(g) ==
    /\ reg.th[g].pc = "looked"
    /\ ~reg.th[g].exists
    /\ reg' = [reg EXCEPT !.th[g].pc = "idle",
                          !.th[g].ret = UnknownServiceType(reg.th[g].ty)]
    /\ UNCHANGED exceptRegistry

\* return creator(config, deps...): the call of the creator
Registry_CallCreator(g) ==
    /\ reg.th[g].pc = "looked"
    /\ reg.th[g].exists
    /\ reg' = [reg EXCEPT !.th[g].pc = "creating",
                          !.th[g].invoked = reg.th[g].creator]
    /\ UNCHANGED exceptRegistry

Registry_CreatorReturns(g, e) ==
    /\ reg.th[g].pc = "creating"
    /\ reg' = [reg EXCEPT !.th[g].pc = "idle", !.th[g].ret = e]
    /\ UNCHANGED exceptRegistry

NextRegistry ==
    \/ \E g \in RegistryCallers, ty \in ServiceTypes, c \in Creators :
          Registry_Register(g, ty, c)
    \/ \E g \in RegistryCallers : Registry_Lock(g)
    \/ \E g \in RegistryCallers : Registry_Store(g)
    \/ \E g \in RegistryCallers, ty \in ServiceTypes : Registry_Create(g, ty)
    \/ \E g \in RegistryCallers : Registry_RLock(g)
    \/ \E g \in RegistryCallers : Registry_Lookup(g)
    \/ \E g \in RegistryCallers : Registry_Unknown(g)
    \/ \E g \in RegistryCallers : Registry_CallCreator(g)
    \/ \E g \in RegistryCallers, e \in CreatorResults : Registry_CreatorReturns(g, e)

SpecRegistry == Init /\ [][NextRegistry]_vars

(***************************************************************************)
(* totex NewWithConfig: the loop that makes and registers the configured   *)
(* servers.                                                                *)
(***************************************************************************)
exceptConfig == <<orchestrator, srv, app, nest, run, reg>>

\* createServerFromConfig: connectrpc.NewServer for "connectrpc", else the
\* type is logged as unknown and nil is returned
createServerFromConfig(ty, k) ==
    IF ty = "connectrpc" THEN [id |-> k, dyn |-> "*connectrpc.Server"]
    ELSE NoServer

\* if connectServer, ok := server.(*connectrpc.Server); ok { app.connectRPC = connectServer }
SetConnectRPC_first(old, ty, server) ==
    IF ty = "connectrpc" /\ server.dyn = "*connectrpc.Server" /\ old = NoServer
    THEN server ELSE old

SetConnectRPC(old, ty, server) ==
    IF ty = "connectrpc" /\ server.dyn = "*connectrpc.Server" THEN server ELSE old

\* one round of `for _, serverCfg := range cfg.Servers`
NewWithConfig_Server ==
    /\ ~tx.returned
    /\ tx.i <= Len(tx.cfg)
    /\ LET ty == tx.cfg[tx.i]
           server == createServerFromConfig(ty, tx.i)
       IN  tx' = IF server # NoServer
                 THEN [tx EXCEPT !.i = RangeNext(@),
                                 !.servers = append(@, server),
                                 !.connectRPC = SetConnectRPC(@, ty, server)]
                 ELSE [tx EXCEPT !.i = RangeNext(@), !.logged = @ + 1]
    /\ UNCHANGED exceptConfig

\* return app
NewWithConfig_Return ==
    /\ ~tx.returned
    /\ tx.i > Len(tx.cfg)
    /\ tx' = [tx EXCEPT !.returned = TRUE]
    /\ UNCHANGED exceptConfig

\* func (a *App) ConnectRPC() *connectrpc.Server { return a.connectRPC }
ConnectRPC(a) == a.connectRPC

NextConfig ==
    \/ NewWithConfig_Server
    \/ NewWithConfig_Return

SpecConfig == InitConfig /\ [][NextConfig]_vars

(***************************************************************************)
(* The application object of shared-foundation, goforge and                *)
(* foundation/main.go: Init fills the unit sequence with the core          *)
(* services, Start and Stop walk it.  One caller; the orchestrator and the *)
(* server unit stand still.                                                *)
(***************************************************************************)
exceptApp == <<orchestrator, srv, nest, run, reg, tx>>

\* steps k..8 of the appending Init: return at the first Create that fails,
\* else append the service and go on
RECURSIVE InitFrom(_, _)
InitFrom(s, k) ==
    IF k > Len(CoreServices) THEN [services |-> s, err |-> Nil]
    ELSE IF Create(k) # Nil THEN [services |-> s, err |-> Create(k)]
    ELSE InitFrom(append(s, CoreServices[k]), k + 1)

\* what Init leaves in a.services and what it returns
InitResult(kind, s) ==
    IF kind \in Appending THEN InitFrom(s, 1)
    ELSE [services |-> CoreServices, err |-> Nil]

App_Init ==
    /\ app.pc = "idle"
    /\ app.inits < MaxInits
    /\ app' = [app EXCEPT !.services = InitResult(app.kind, app.services).services,
                          !.inits = @ + 1,
                          !.op = "init",
                          !.ev = <<>>,
                          !.ret = InitResult(app.kind, app.services).err]
    /\ UNCHANGED exceptApp

\* what a core service's Start may return
CoreStartResults == {Nil, UnitError("start failed")}

\* Start: for _, service := range a.services
App_Start ==
    /\ app.pc = "idle"
    /\ app.calls < MaxAppCalls
    /\ app' = [app EXCEPT !.pc = "starting", !.calls = @ + 1, !.i = RangeFirst(Len(app.services)),
                          !.op = "start", !.ev = <<>>, !.ret = Nil]
    /\ UNCHANGED exceptApp

App_StartHook(r) ==
    /\ app.pc = "starting"
    /\ app.i <= Len(app.services)
    /\ app' = [app EXCEPT
                 !.ev = Append(@, app.services[app.i]),
                 !.i = IF StartAborts(r) THEN @ ELSE RangeNext(@),
                 !.pc = IF StartAborts(r) THEN "idle" ELSE @,
                 !.ret = IF StartAborts(r)
                         THEN Errorf_failed_to_start(app.services[app.i], r)
                         ELSE @]
    /\ UNCHANGED exceptApp

App_StartReturn ==
    /\ app.pc = "starting"
    /\ app.i > Len(app.services)
    /\ app' = [app EXCEPT !.pc = "idle", !.ret = Nil]
    /\ UNCHANGED exceptApp

\* Stop: for i := len(a.services) - 1; i >= 0; i--; errors are only logged
App_Stop ==
    /\ app.pc = "idle"
    /\ app.calls < MaxAppCalls
    /\ app' = [app EXCEPT !.pc = "stopping", !.calls = @ + 1,
                          !.i = AppStopFirst(Len(app.services)),
                          !.op = "stop", !.ev = <<>>, !.ret = Nil]
    /\ UNCHANGED exceptApp

App_StopHook ==
    /\ app.pc = "stopping"
    /\ AppStopLoops(app.i)
    /\ app' = [app EXCEPT !.ev = Append(@, app.services[app.i]),
                          !.i = AppStopNext(@)]
    /\ UNCHANGED exceptApp

App_StopReturn ==
    /\ app.pc = "stopping"
    /\ ~AppStopLoops(app.i)
    /\ app' = [app EXCEPT !.pc = "idle", !.ret = Nil]
    /\ UNCHANGED exceptApp

NextApp ==
    \/ App_Init
    \/ App_Start
    \/ \E r \in CoreStartResults : App_StartHook(r)
    \/ App_StartReturn
    \/ App_Stop
    \/ App_StopHook
    \/ App_StopReturn

SpecApp == InitApp /\ [][NextApp]_vars


TypeOK ==
    /\ variant \in Variants
    /\ Len(services) <= MaxUnits
    /\ cancelled \in BOOLEAN
    /\ mu \in Callers \cup {NoOne}
    /\ \A t \in Callers : wg[t] \in 0..MaxUnits
(***************************************************************************)
(* Reading the record of a call.                                           *)
(***************************************************************************)
StartCallers == {t \in Callers : call[t].op = "start"}

StopCallers == {t \in Callers : call[t].op = "stop"}

Evs(t) == call[t].ev

Invs(t) == {j \in 1..Len(Evs(t)) : Evs(t)[j].k = "inv"}

\* how many hook invocations an event list holds
NumInv(ev) == Cardinality({j \in 1..Len(ev) : ev[j].k = "inv"})

\* the events at which a hook returned an error
Fails(t) == {j \in 1..Len(Evs(t)) : Evs(t)[j].k = "ret" /\ Evs(t)[j].r # Nil}

InvsOf(t, u) == {j \in Invs(t) : Evs(t)[j].u = u}

FailedUnits(t) == {Evs(t)[j].u : j \in Fails(t)}

\* calls completed before the call of t began
Before(t) == 1..call[t].h0

(***************************************************************************)
(* C1: within one start call the start hooks are invoked in registration   *)
(* order, one at a time, and the hook of unit i+1 is invoked only after    *)
(* the hook of unit i has returned successfully.                           *)
(***************************************************************************)
C1_StartInRegistrationOrder ==
    \A t \in StartCallers :
        \A j \in Invs(t) :
            /\ Evs(t)[j].u = Cardinality({i \in Invs(t) : i <= j})
            /\ Evs(t)[j].u > 1 =>
                  /\ j > 1
                  /\ Evs(t)[j - 1].k = "ret"
                  /\ Evs(t)[j - 1].u = Evs(t)[j].u - 1
                  /\ Evs(t)[j - 1].r = Nil
            /\ j < Len(Evs(t)) =>
                  /\ Evs(t)[j + 1].k = "ret"
                  /\ Evs(t)[j + 1].u = Evs(t)[j].u

C1_Witness ==
    \E t \in StartCallers :
        /\ call[t].done
        /\ call[t].ret = Nil
        /\ call[t].n >= 2
        /\ Cardinality(Invs(t)) = call[t].n

(***************************************************************************)
(* C2: when the start hook of unit k returns an error, start returns an    *)
(* error at once and no start hook of a later unit is invoked in that      *)
(* call.                                                                   *)
(***************************************************************************)
C2_StartFailFast ==
    \A t \in StartCallers :
        \A j \in Fails(t) :
            /\ j = Len(Evs(t))
            /\ call[t].done
            /\ call[t].ret # Nil

C2_Witness ==
    \E t \in StartCallers :
        \E j \in Fails(t) :
            /\ call[t].done
            /\ Evs(t)[j].u < call[t].n
            /\ InvsOf(t, Evs(t)[j].u + 1) = {}

(***************************************************************************)
(* C3: in the App variants a start failure of unit k with cause c is       *)
(* returned as "failed to start <name of k>: <c>", wrapping c and naming   *)
(* no other unit.                                                          *)
(***************************************************************************)
C3_AppStartErrorNamesUnit ==
    variant = "app" =>
        \A t \in StartCallers :
            \A j \in Fails(t) :
                /\ call[t].ret.msg =
                      <<"failed to start ", UnitNames[Evs(t)[j].u], ": ">>
                          \o Evs(t)[j].r.msg
                /\ call[t].ret.wraps = Evs(t)[j].r.msg
                /\ \A i \in 1..MaxUnits :
                      UnitNames[i] \in Tokens(call[t].ret) => i = Evs(t)[j].u

C3_Witness ==
    /\ variant = "app"
    /\ \E t \in StartCallers :
          \E j \in Fails(t) : call[t].done /\ Evs(t)[j].u = 2

(***************************************************************************)
(* C4 (as claimed): in the Orchestrator and ServiceFactory variants the    *)
(* error returned by Start when unit k fails identifies unit k by name.    *)
(***************************************************************************)
C4_OrchestratorStartErrorNamesUnit ==
    variant \in FanOut =>
        \A t \in StartCallers :
            \A j \in Fails(t) :
                call[t].done => UnitNames[Evs(t)[j].u] \in Tokens(call[t].ret)

(***************************************************************************)
(* C5: one stop call invokes the stop hook of every registered unit        *)
(* exactly once, whichever stop hooks fail.                                *)
(***************************************************************************)
C5_StopInvokesEveryUnitOnce ==
    \A t \in StopCallers :
        /\ \A j \in Invs(t) : Evs(t)[j].u \in 1..call[t].n
        /\ \A u \in 1..call[t].n :
              /\ Cardinality(InvsOf(t, u)) <= 1
              /\ call[t].done => Cardinality(InvsOf(t, u)) = 1

C5_Witness ==
    \E t \in StopCallers :
        /\ call[t].done
        /\ call[t].n >= 2
        /\ \E j \in Fails(t) : \E i \in Invs(t) : i > j

(***************************************************************************)
(* C6 (as claimed): in the fan-out variants with an error channel, when    *)
(* two or more units fail to stop, the error returned by stop includes     *)
(* the name and the cause of every one of them.                            *)
(***************************************************************************)
C6_StopReturnsAggregate ==
    variant = "separated" =>
        \A t \in StopCallers :
            (call[t].done /\ Cardinality(FailedUnits(t)) >= 2) =>
                \A j \in Fails(t) :
                    /\ UnitNames[Evs(t)[j].u] \in Tokens(call[t].ret)
                    /\ Tokens(Evs(t)[j].r) \subseteq Tokens(call[t].ret)

(***************************************************************************)
(* C7 (as claimed): App.Stop returns success only if no stop hook failed.  *)
(***************************************************************************)
C7_AppStopSurfacesFailure ==
    variant = "app" =>
        \A t \in StopCallers :
            (call[t].done /\ call[t].ret = Nil) => Fails(t) = {}

(***************************************************************************)
(* C8 (as claimed): after a successful start and a first completed stop,   *)
(* a second stop returns success and invokes no stop hook.                 *)
(***************************************************************************)
C8_SecondStopIsNoOp ==
    \A t \in StopCallers :
        (\E i, j \in Before(t) :
            /\ i < j
            /\ hist[i].op = "start" /\ hist[i].ok
            /\ hist[j].op = "stop")
        => /\ Invs(t) = {}
           /\ call[t].done => call[t].ret = Nil

(***************************************************************************)
(* C9: in every stop call the root context is already cancelled when any   *)
(* stop hook is invoked.                                                   *)
(***************************************************************************)
C9_CancelBeforeStopHooks ==
    /\ \A t \in StopCallers : \A j \in Invs(t) : Evs(t)[j].c
    /\ \A t \in Callers :
          (pc[t] = "stop_hook" \/ \E u \in 1..MaxUnits : gor[t][u] = "running")
              => cancelled

C9_Witness ==
    \E t \in StopCallers :
        /\ Invs(t) # {}
        /\ ~call[t].done
        /\ \A i \in Before(t) : hist[i].op # "stop"

(***************************************************************************)
(* C10 (as claimed): stop on an orchestrator whose start was never called  *)
(* invokes no stop hook and returns success.                               *)
(***************************************************************************)
C10_StopWhenIdleIsNoOp ==
    \A t \in StopCallers :
        (\A i \in Before(t) : hist[i].op # "start")
        => /\ Invs(t) = {}
           /\ call[t].done => call[t].ret = Nil
(***************************************************************************)
(* C11 (as claimed): a start call made after an earlier start call is      *)
(* rejected with an error and invokes no start hook.                       *)
(***************************************************************************)
C11_SecondStartRejected ==
    \A t \in StartCallers :
        (\E i \in Before(t) : hist[i].op = "start")
        => /\ Invs(t) = {}
           /\ call[t].done => call[t].ret # Nil

(***************************************************************************)
(* C12 (as claimed): once a stop has completed or a start has failed, no   *)
(* later start call invokes a start hook.                                  *)
(***************************************************************************)
C12_StoppedIsTerminal ==
    \A t \in StartCallers :
        (\E i \in Before(t) :
            \/ hist[i].op = "stop"
            \/ hist[i].op = "start" /\ ~hist[i].ok)
        => Invs(t) = {}

C14_StopWaitsForAllHooks ==
    variant \in FanOut =>
        \A t \in Callers :
            /\ (\E u \in 1..MaxUnits : gor[t][u] \in {"ready", "running", "sending"})
                  => (mu = t /\ pc[t] \in {"stop_spawn", "stop_wait"})
            /\ (call[t].op = "stop" /\ call[t].done)
                  => \A j \in Invs(t) :
                        \E i \in (j + 1)..Len(Evs(t)) :
                            Evs(t)[i].k = "ret" /\ Evs(t)[i].u = Evs(t)[j].u

C14_Witness ==
    /\ variant \in FanOut
    /\ \E t \in Callers :
          /\ pc[t] = "stop_wait"
          /\ wg[t] > 0
          /\ \E u \in 1..MaxUnits : gor[t][u] = "running"

(***************************************************************************)
(* C15: when every invoked stop hook returns, every stop call returns,     *)
(* and a goroutine that has an error to send always finds room in the      *)
(* channel (fewer errors queued than there are units).                     *)
(***************************************************************************)
C15_StopSettles ==
    /\ \A t \in Callers :
          (pc[t] \notin {"idle", "wfs_wait"}) ~> (pc[t] \in {"idle", "exited"})
    /\ [](\A t \in Callers : \A u \in 1..MaxUnits :
             gor[t][u] = "sending" => Len(errors[t]) < call[t].n)

C15_Witness ==
    /\ variant = "separated"
    /\ \E t \in StopCallers :
          /\ call[t].done
          /\ call[t].n >= 2
          /\ Cardinality(FailedUnits(t)) = call[t].n

(***************************************************************************)
(* C16: no step of a start call cancels the root context or runs a stop    *)
(* hook, also when a start hook fails.                                     *)
(***************************************************************************)
C16_StartDoesNotRollBack ==
    [][\A t \in Callers :
          (call[t].op = "start" /\ ~call[t].done)
          => /\ cancelled' = cancelled
             /\ gor' = gor
             /\ pc'[t] \in {"start_loop", "start_hook", "idle"}]_vars

C16_Witness ==
    /\ ~cancelled
    /\ \E t \in StartCallers :
          /\ call[t].done
          /\ \E j \in Fails(t) : Evs(t)[j].u >= 2

(***************************************************************************)
(* C17: a registration appends exactly one unit at the end, leaves the     *)
(* earlier units in place and runs no hook; the sequence is always the     *)
(* units in registration order.                                            *)
(***************************************************************************)
C17_RegisterAppendsOne ==
    /\ [](\A i \in 1..Len(services) : services[i] = UnitNames[i])
    /\ [][services' # services
            => /\ Len(services') = Len(services) + 1
               /\ SubSeq(services', 1, Len(services)) = services
               /\ call' = call
               /\ gor' = gor
               /\ pc' = pc
               /\ cancelled' = cancelled]_vars

C17_Witness == Len(services) >= 2 /\ hist = <<>>

(***************************************************************************)
(* C18: a start or stop call in which no hook fails invokes the hook of    *)
(* every registered unit and returns success, for any number of units.     *)
(***************************************************************************)
C18_AllSucceedReturnsSuccess ==
    \A t \in StartCallers \cup StopCallers :
        (call[t].done /\ Fails(t) = {})
        => /\ call[t].ret = Nil
           /\ \A u \in 1..call[t].n : InvsOf(t, u) # {}

C18_Witness ==
    \E t \in StopCallers :
        /\ call[t].done
        /\ call[t].ret = Nil
        /\ call[t].n >= 2
        /\ Fails(t) = {}
        /\ call[t].h0 >= 1
        /\ hist[call[t].h0].op = "start"
        /\ hist[call[t].h0].ok

(***************************************************************************)
(* C19: App.Stop invokes the stop hooks one at a time in reverse           *)
(* registration order; the hook of unit i is invoked right after the hook  *)
(* of unit i+1 has returned, failed or not.                                *)
(***************************************************************************)
C19_AppStopReverseOrder ==
    variant = "app" =>
        \A t \in StopCallers :
            \A j \in Invs(t) :
                /\ Evs(t)[j].u =
                      call[t].n - Cardinality({i \in Invs(t) : i <= j}) + 1
                /\ Evs(t)[j].u < call[t].n =>
                      /\ j > 1
                      /\ Evs(t)[j - 1].k = "ret"
                      /\ Evs(t)[j - 1].u = Evs(t)[j].u + 1
                /\ j < Len(Evs(t)) =>
                      /\ Evs(t)[j + 1].k = "ret"
                      /\ Evs(t)[j + 1].u = Evs(t)[j].u

C19_Witness ==
    /\ variant = "app"
    /\ \E t \in StopCallers :
          /\ call[t].done
          /\ call[t].n >= 2
          /\ \E j \in Fails(t) : Evs(t)[j].u = call[t].n

(***************************************************************************)
(* C20 (as claimed): once the root cancel function has been invoked, the   *)
(* context that was handed to the start hooks reports cancelled.           *)
(***************************************************************************)
C20_StartCtxCarriesRootCancel ==
    (cancelled /\ startCtx # "none") => ctxDone(startCtx)

C22_SignalThenStopOnce ==
    /\ [](\A t \in Callers :
            /\ pc[t] = "wfs_wait"
                  => (call[t].op = "wait" /\ call[t].w = "waiting"
                         /\ Evs(t) = <<>> /\ mu # t)
            /\ call[t].w \in {"stopping", "returned", "exited"}
                  => (call[t].op = "stop" /\ call[t].sig)
            /\ call[t].w \in {"returned", "exited"}
                  => (call[t].done /\ pc[t] \in {"idle", "exited"}))
    /\ [][\A t \in Callers :
            /\ (call'[t].w = "stopping" /\ call[t].w # "stopping")
                  => (call[t].w = "signalled" /\ pc'[t] = "stop_cancel")
            /\ (call[t].w = "signalled" /\ call'[t].w # "signalled")
                  => call'[t].w = "stopping"
            /\ (call[t].w = "stopping" /\ call'[t].w # "stopping")
                  => /\ call'[t].w \in {"returned", "exited"}
                     /\ Len(hist') = Len(hist) + 1
                     /\ hist'[Len(hist')].op = "stop"
                     /\ hist'[Len(hist')].by = t
            /\ (call[t].w \in {"signalled", "stopping"}
                  /\ call'[t].w \in {"signalled", "stopping"})
                  => hist' = hist]_vars
    /\ \A t \in Callers :
          (pc[t] = "wfs_wait" /\ sigChan[t] # <<>>)
              ~> (call[t].w \in {"returned", "exited"})

C22_Witness ==
    \E t \in StopCallers :
        /\ call[t].w = "returned"
        /\ call[t].sig
        /\ call[t].n >= 2
        /\ \A u \in 1..call[t].n : InvsOf(t, u) # {}

(***************************************************************************)
(* C23: the root context is not cancelled before any stop call has         *)
(* invoked cancel, is cancelled from the step that invokes cancel on, and  *)
(* stays cancelled; a repeated cancel (a second stop) leaves it cancelled  *)
(* and the stop call goes on as before.                                    *)
(***************************************************************************)
C23_CancelOnceAndForAll ==
    /\ ~cancelled
    /\ [](cancelled =>
             \/ \E i \in 1..Len(hist) : hist[i].op = "stop"
             \/ \E t \in StopCallers : pc[t] # "stop_cancel")
    /\ [][/\ cancelled => cancelled'
          /\ \A t \in Callers :
                (pc[t] = "stop_cancel" /\ pc'[t] # "stop_cancel")
                    => /\ cancelled'
                       /\ pc'[t] \in {"stop_spawn", "stop_loop"}
                       /\ call'[t] = call[t]]_vars

C23_Witness ==
    \E t \in StopCallers :
        /\ \E i \in Before(t) : hist[i].op = "stop"
        /\ pc[t] \in {"stop_spawn", "stop_loop"}
        /\ Evs(t) = <<>>
        /\ cancelled

(***************************************************************************)
(* C24 (as claimed): when two callers invoke stop concurrently on an       *)
(* orchestrator that was started, the mutex lets one stop run after the    *)
(* other, and the stop that runs second invokes no stop hook that the      *)
(* stop before it has already invoked.                                     *)
(***************************************************************************)
C24_ConcurrentStopsStopOnce ==
    \A t \in StopCallers : \A s \in Callers \ {t} :
        (/\ call[t].h0 >= 2
         /\ hist[call[t].h0].op = "stop"
         /\ hist[call[t].h0].by = s
         /\ call[s].op = "stopped"
         /\ \E i \in 1..(call[t].h0 - 1) : hist[i].op = "start" /\ hist[i].ok)
        => \A j \in Invs(t) : Evs(t)[j].u > call[s].n

(***************************************************************************)
(* C25 (as claimed): once a start call has been made, a registration is    *)
(* refused and the unit sequence stays as it was.                          *)
(***************************************************************************)
C25_NoRegistrationAfterStart ==
    [][(\E i \in 1..Len(hist) : hist[i].op = "start") => services' = services]_vars

(***************************************************************************)
(* C26: a Stop of the HTTP server unit made before any Start finds the     *)
(* server field nil, shuts nothing down, returns nil and does not panic.   *)
(***************************************************************************)
C26_ServerStopBeforeStart ==
    \A i \in 1..Len(srv.calls) :
        (/\ srv.calls[i].op = "Stop"
         /\ \A j \in 1..(i - 1) : srv.calls[j].op # "Start")
        => /\ srv.calls[i].had = NilServer
           /\ srv.calls[i].ret = Nil
           /\ ~srv.calls[i].shut

C26_Witness ==
    /\ Len(srv.calls) >= 2
    /\ srv.calls[1].op = "Stop"
    /\ srv.calls[2].op = "Start"
    /\ srv.https[1].lis = "serving"

(***************************************************************************)
(* C27 (as claimed): a Start of the HTTP server unit that follows a Start  *)
(* returns an error, leaves the server field as it was and spawns no       *)
(* second listener goroutine.                                              *)
(***************************************************************************)
C27_ServerSecondStartRejected ==
    \A i \in 2..Len(srv.calls) :
        (srv.calls[i].op = "Start" /\ srv.calls[i - 1].op = "Start")
        => /\ srv.calls[i].ret # Nil
           /\ srv.calls[i].has = srv.calls[i].had

(***************************************************************************)
(* C28: no step of a start or stop call changes the unit sequence; while   *)
(* a call runs and when it has returned, with success or with an error,    *)
(* the sequence is the one the call began with.                            *)
(***************************************************************************)
C28_CallsLeaveSequenceAlone ==
    /\ [](\A t \in StartCallers \cup StopCallers :
             ~call[t].done => Len(services) = call[t].n)
    /\ [][(\E t \in Callers :
              \/ call[t].op \in {"start", "stop"} /\ ~call[t].done
              \/ call'[t].op \in {"start", "stop"} /\ ~call'[t].done)
          => services' = services]_vars

C28_Witness ==
    \E t \in StopCallers :
        /\ call[t].done
        /\ Fails(t) # {}
        /\ call[t].n >= 2
        /\ services = <<UnitNames[1], UnitNames[2]>>
        /\ \E i \in Before(t) : hist[i].op = "start" /\ ~hist[i].ok
        /\ \E i \in Before(t) : hist[i].op = "start" /\ hist[i].ok

(***************************************************************************)
(* C29: a stop call that follows a failed start invokes the stop hook of   *)
(* every registered unit once, the unit whose start hook failed and the    *)
(* units after it included.                                                *)
(***************************************************************************)
C29_StopAfterFailedStartStopsAll ==
    \A t \in StopCallers :
        (/\ call[t].done
         /\ call[t].h0 >= 1
         /\ hist[call[t].h0].op = "start"
         /\ ~hist[call[t].h0].ok)
        => \A u \in 1..call[t].n : Cardinality(InvsOf(t, u)) = 1

C29_Witness ==
    \E t \in StopCallers :
        /\ call[t].done
        /\ call[t].h0 = 1
        /\ hist[1].op = "start"
        /\ ~hist[1].ok
        /\ call[t].n >= 2
        /\ Cardinality(Invs(t)) = call[t].n

(***************************************************************************)
(* C30: in the fan-out variants every stop hook is handed the root         *)
(* context, and that context is already cancelled when the hook is         *)
(* invoked.                                                                *)
(***************************************************************************)
C30_FanOutStopCtxIsCancelledRoot ==
    variant \in FanOut =>
        \A t \in StopCallers :
            \A j \in Invs(t) :
                /\ Evs(t)[j].ctx = "root"
                /\ Evs(t)[j].c
                /\ ctxDone(Evs(t)[j].ctx)

C30_Witness ==
    /\ variant \in FanOut
    /\ \E t \in StopCallers :
          /\ Cardinality(Invs(t)) >= 2
          /\ \A u \in 1..call[t].n : gor[t][u] = "running"

DependencyOrder ==
    <<"logger", "tracer", "metrics", "service-discovery", "broker", "cache",
      "database", "connectrpc-server">>

Reverse(s) == [k \in 1..Len(s) |-> s[Len(s) + 1 - k]]

IsPrefix(s, t) == Len(s) <= Len(t) /\ \A k \in 1..Len(s) : s[k] = t[k]

\* how often a service occurs in a sequence of service names
Occurrences(s, x) == Cardinality({k \in 1..Len(s) : s[k] = x})

\* the last call on the App was this operation and has returned
AppReturned(o) == app.op = o /\ app.pc = "idle"

C33_InitIdempotent ==
    app.inits >= 1 =>
        /\ \A k \in 1..Len(DependencyOrder) :
              Occurrences(app.services, DependencyOrder[k]) = 1
        /\ (AppReturned("start") /\ app.ret = Nil) =>
              \A k \in 1..Len(DependencyOrder) :
                  Occurrences(app.ev, DependencyOrder[k]) = 1

\* a hook of the call that is under way has called back into the orchestrator
Nested == nest # NoNest

ServerStarts == {i \in 1..Len(srv.calls) : srv.calls[i].op = "Start"}

\* C35: every Start of the HTTP server unit returns success and leaves a
\* listener task behind, whatever becomes of the listener: a listener that
\* fails to bind changes no call's result, so the orchestrator's start loop,
\* which aborts only on a non-nil result, goes on past this unit.
C35_ServerStartAlwaysSucceeds ==
    /\ [](\A i \in ServerStarts :
             /\ srv.calls[i].ret = Nil
             /\ ~StartAborts(srv.calls[i].ret)
             /\ srv.calls[i].has \in 1..Len(srv.https)
             /\ srv.calls[i].has # srv.calls[i].had)
    /\ [][\A k \in 1..Len(srv.https) :
             (srv.https[k].lis = "spawned" /\ srv'.https[k].lis = "failed")
             => srv'.calls = srv.calls]_vars

C35_Witness ==
    \E i \in ServerStarts :
        /\ srv.https[srv.calls[i].has].lis = "failed"
        /\ srv.calls[i].ret = Nil

(***************************************************************************)
(* Reading Run and the builder chain.                                      *)
(***************************************************************************)
\* the stop calls completed so far
StopsDone == {i \in 1..Len(hist) : hist[i].op = "stop"}

\* C36: when the start sequence of ServiceFactory.Run fails, Run returns that
\* error at once: it has not waited for a signal, the root context is not
\* cancelled and no stop hook has been invoked; when the start succeeds Run
\* returns only after a signal was received and Stop has completed, and
\* returns what Stop returned.
C36_RunReturns ==
    /\ [](run.kind = "Run" /\ run.stage = "returned" =>
            IF run.startErr # Nil
            THEN /\ run.ret = run.startErr
                 /\ call[Main].op = "start"
                 /\ ~cancelled
                 /\ StopsDone = {}
                 /\ sigChan[Main] = <<>>
            ELSE /\ call[Main].op = "stop" /\ call[Main].done
                 /\ call[Main].sig
                 /\ StopsDone # {}
                 /\ run.ret = call[Main].ret
                 /\ hist[Len(hist)].op = "stop"
                 /\ hist[Len(hist)].ok = (run.ret = Nil))
    /\ [][run.kind = "Run" /\ run.stage = "start" /\ run'.stage # "start" =>
            IF call[Main].ret # Nil
            THEN run'.stage = "returned" /\ run'.ret = call[Main].ret
            ELSE run'.stage = "wait" /\ pc'[Main] = "wfs_wait"]_vars
    /\ [][run.kind = "Run" /\ run.stage = "wait" /\ run'.stage = "returned" =>
            /\ call[Main].op = "stop" /\ call[Main].done /\ call[Main].sig
            /\ run'.ret = call[Main].ret]_vars

C36_Witness ==
    /\ run.kind = "Run"
    /\ run.stage = "returned"
    /\ run.startErr # Nil
    /\ Len(services) = 2
    /\ NumInv(call[Main].ev) = 2

\* C37: Microservice.Start invokes no start hook after the first that fails,
\* and hands its caller the Microservice whether a unit failed or not; the
\* chained WaitForShutdown therefore waits for a signal also after a failed
\* start, and its StopAll then invokes the stop hook of every registered unit.
C37_ChainGoesOnAfterFailedStart ==
    /\ [](run.kind = "chain" /\ run.stage = "start" =>
            \A j \in Fails(Main) : j = Len(Evs(Main)))
    /\ [](run.kind = "chain" /\ run.stage \in {"wait", "returned"} =>
            /\ run.got.m
            /\ run.got.err = Nil)
    /\ [](run.kind = "chain" /\ run.stage = "returned" =>
            /\ call[Main].op = "stop" /\ call[Main].done
            /\ call[Main].sig
            /\ \A u \in 1..Len(services) : InvsOf(Main, u) # {})
    /\ [][run.kind = "chain" /\ run.stage = "start" /\ run'.stage # "start" =>
            run'.stage = "wait" /\ pc'[Main] = "wfs_wait"]_vars

C37_Witness ==
    /\ run.kind = "chain"
    /\ run.stage = "returned"
    /\ run.startErr # Nil
    /\ Len(services) = 2
    /\ NumInv(call[Main].ev) = 2

\* the callers whose WaitForShutdown has called Stop and got it back
ShutDown == {t \in Callers : call[t].op = "stop" /\ call[t].done
                             /\ call[t].w \in {"returned", "exited"}}

\* C38: in separated's and the root ServiceFactory's WaitForShutdown a Stop
\* that returns an error ends the process with os.Exit(1), and the message
\* "All services stopped gracefully" is logged exactly when Stop returned nil;
\* in simple's and the builder's WaitForShutdown failing stop hooks change
\* nothing: it returns and the message is logged.
C38_StopErrorExitsProcess ==
    \A t \in ShutDown :
        IF variant = "separated"
        THEN /\ call[t].ret # Nil =>
                   /\ call[t].w = "exited"
                   /\ \A s \in Callers : pc[s] = "exited"
                   /\ ~Graceful(call[t])
             /\ call[t].ret = Nil =>
                   /\ call[t].w = "returned"
                   /\ pc[t] = "idle"
                   /\ Graceful(call[t])
             /\ (call[t].ret # Nil) <=> (Fails(t) # {})
        ELSE /\ call[t].w = "returned"
             /\ pc[t] = "idle"
             /\ Graceful(call[t])
             /\ call[t].ret = Nil

C38_Witness ==
    \E t \in ShutDown :
        /\ variant = "separated"
        /\ call[t].ret # Nil
        /\ pc[t] = "exited"
        /\ Len(services) = 2

(***************************************************************************)
(* Reading the Registry.                                                   *)
(***************************************************************************)
\* the Register calls of type ty among the first k that returned
Registered(ty, k) == {i \in 1..k : reg.done[i].ty = ty}

\* the creator of the latest of them, or "none"
LatestCreator(ty, k) ==
    IF Registered(ty, k) = {} THEN "none"
    ELSE reg.done[CHOOSE i \in Registered(ty, k) :
                     \A j \in Registered(ty, k) : j <= i].c

\* the goroutines whose Create has read the map
Looked == {g \in RegistryCallers :
              reg.th[g].op = "Create" /\ reg.th[g].pc \in {"looked", "creating", "idle"}}

KnownEntries == {i \in 1..Len(tx.cfg) : tx.cfg[i] = "connectrpc"}

\* how many of them lie at or before entry i
KnownUpTo(i) == Cardinality({j \in KnownEntries : j <= i})

\* C40: the App that NewWithConfig returns has registered exactly the
\* configured servers of a known type, in the order of the configuration;
\* an entry of unknown type is logged and skipped; ConnectRPC() is the last
\* registered server of type connectrpc, and nil when there is none.
C40_ConfiguredServersRegistered ==
    tx.returned =>
        /\ Len(tx.servers) = Cardinality(KnownEntries)
        /\ \A i \in KnownEntries :
              /\ tx.servers[KnownUpTo(i)].id = i
              /\ tx.servers[KnownUpTo(i)].dyn = "*connectrpc.Server"
        /\ tx.logged = Len(tx.cfg) - Cardinality(KnownEntries)
        /\ IF KnownEntries = {} THEN ConnectRPC(tx) = NoServer
           ELSE /\ ConnectRPC(tx) = tx.servers[Len(tx.servers)]
                /\ \A i \in KnownEntries : i <= ConnectRPC(tx).id

C40_Witness ==
    /\ tx.returned
    /\ tx.cfg = <<"connectrpc", "grpc", "connectrpc">>
    /\ Len(tx.servers) = 2
    /\ ConnectRPC(tx).id = 3
====
